---- MODULE Spec2Model ----
(***************************************************************************)
(* A model of knapsackGenAlgo.py: a genetic algorithm for a small knapsack *)
(* problem.  Chromosome objects live in a heap and are referred to by      *)
(* address, because the program compares chromosomes by identity (x == y   *)
(* on a class without __eq__) and because crossover may hand back one of   *)
(* its arguments, which mutate then writes into.                           *)
(***************************************************************************)
EXTENDS Integers, Sequences, FiniteSets, TLC

VARIABLES
    boxes,          \* the driver's list `boxes` (random.shuffle permutes it)
    heap,           \* address -> Chromosome object
    population,     \* population.population: a list of addresses
    size,           \* population.size
    nextgen,        \* nextgen.population: a list of addresses
    nextgen_size,   \* nextgen.size
    i, j,           \* the loop counters of genetic_algo
    x, y,           \* the two parents drawn in the loop body
    best,           \* genetic_algo's `best`, and the driver's `best` after the return
    pc,             \* the position of the program
    p_arg,          \* the probability handed to mutate when it is called on its own
    mutations       \* the number of genes replaced so far in the run

vars == <<boxes, heap, population, size, nextgen, nextgen_size, i, j, x, y, best,
          pc, p_arg, mutations>>

(***************************************************************************)
(* Bounds of the model.                                                    *)
(***************************************************************************)
\* The driver's POP_SIZE; the driver sets 35.
POP_SIZE == 4
\* How many of the outcomes listed in ShuffleList random.shuffle may produce
\* while the initial population is generated.
NumShuffles == 2
\* How many gene replacements mutate may make in one run of genetic_algo.
MaxMutations == 1
\* The largest population handed to cull when it is called on its own.
MaxCull == 3

(***************************************************************************)
(* Program constants.                                                      *)
(***************************************************************************)
GENERATIONS == 5
MAX_SCORE == 22
\* MUTANT_PROB is .30; probabilities are counted in tenths, the unit in which
\* mutant_prob compares them (probability *= 10).
MUTANT_PROB == 3
ideal_weight_bonus == 2

None == 0

\* The Box objects the driver creates, one for each name.  No Box is written
\* after its construction and the lists hold references, so a Box is referred
\* to by its name and its attributes are read from the table.
a == "a"
b == "b"
c == "c"
d == "d"
e == "e"
f == "f"
g == "g"

Box ==
    [name \in {a, b, c, d, e, f, g} |->
        CASE name = a -> [weight |-> 20, value |-> 6]
          [] name = b -> [weight |-> 30, value |-> 5]
          [] name = c -> [weight |-> 60, value |-> 8]
          [] name = d -> [weight |-> 90, value |-> 7]
          [] name = e -> [weight |-> 50, value |-> 6]
          [] name = f -> [weight |-> 70, value |-> 9]
          [] name = g -> [weight |-> 30, value |-> 4]]

\* The list the driver builds, in the order of its appends.
DriverBoxes == <<a, b, c, d, e, f, g>>

\* The order of the names, for sorted(..., key=lambda x: x.name).
NameRank ==
    [name \in {a, b, c, d, e, f, g} |->
        CHOOSE k \in 1..Len(DriverBoxes) : DriverBoxes[k] = name]

Range(s) == {s[k] : k \in DOMAIN s}

\* list.remove(v): drops the first element equal to v.
RemoveFirst(s, v) ==
    LET k == CHOOSE n \in DOMAIN s : s[n] = v /\ \A m \in 1..(n - 1) : s[m] # v
    IN  SubSeq(s, 1, k - 1) \o SubSeq(s, k + 1, Len(s))

(***************************************************************************)
(* Chromosome                                                              *)
(***************************************************************************)
RECURSIVE sum_weight(_)
sum_weight(bx) ==
    IF bx = <<>> THEN 0 ELSE Box[bx[1]].weight + sum_weight(Tail(bx))

RECURSIVE sum_value(_)
sum_value(bx) ==
    IF bx = <<>> THEN 0 ELSE Box[bx[1]].value + sum_value(Tail(bx))

\* int((weight - 120)/2) is taken only for weight > 120, where truncation and
\* \div agree.
calc_fitness(bx) ==
    LET fit_score == sum_value(bx)
        weight == sum_weight(bx)
    IN  IF weight > 120 THEN fit_score - ((weight - 120) \div 2)
        ELSE IF weight = 120 THEN fit_score + ideal_weight_bonus
        ELSE fit_score

\* The first three boxes of the shuffled list; an empty list gives no genes.
gen_chromosome(box_list) ==
    IF Len(box_list) = 0 THEN <<>> ELSE SubSeq(box_list, 1, 3)

\* Chromosome.__init__ on an already shuffled list.
Chromosome(box_list) ==
    LET bx == gen_chromosome(box_list)
    IN  [boxes |-> bx,
         total_weight |-> sum_weight(bx),
         total_value |-> sum_value(bx),
         fitness |-> calc_fitness(bx)]

\* The outcomes of random.shuffle(box_list) that the model draws from.
ShuffleList ==
    << <<f, a, b, c, d, e, g>>,
       <<a, b, g, d, c, e, f>>,
       <<b, g, f, a, c, d, e>>,
       <<g, a, f, e, d, c, b>> >>

\* The runs of n shuffles the model follows: the first gives ShuffleList[1],
\* and each later one repeats the outcome before it or gives the next of the
\* list, NumShuffles outcomes at most.
ShuffleRuns(n) ==
    { sh \in [1..n -> 1..NumShuffles] :
        /\ n > 0 => sh[1] = 1
        /\ \A k \in 1..(n - 1) : sh[k + 1] \in {sh[k], sh[k] + 1} }

(***************************************************************************)
(* Population                                                              *)
(***************************************************************************)
\* sorted(..., key=fitness, reverse=True) is stable: members of equal fitness
\* keep their order.  InsertDesc puts r after every member at least as fit.
RECURSIVE InsertDesc(_, _, _)
InsertDesc(h, s, r) ==
    IF s = <<>> THEN <<r>>
    ELSE IF h[s[1]].fitness >= h[r].fitness
         THEN <<s[1]>> \o InsertDesc(h, Tail(s), r)
         ELSE <<r>> \o s

RECURSIVE get_fittest(_, _)
get_fittest(h, pop) ==
    IF pop = <<>> THEN <<>>
    ELSE InsertDesc(h, get_fittest(h, SubSeq(pop, 1, Len(pop) - 1)), pop[Len(pop)])

\* cull without the sort: the first half in insertion order.
cull_unsorted(h, pop) ==
    [population |-> SubSeq(pop, 1, Len(pop) \div 2), size |-> Len(pop) \div 2]

cull(h, pop) ==
    LET sorted == get_fittest(h, pop)
        length == Len(sorted) \div 2
    IN  [population |-> SubSeq(sorted, 1, length), size |-> length]

(***************************************************************************)
(* Genetic operators                                                       *)
(***************************************************************************)
\* sorted(boxes, key=name): a stable insertion by the rank of the name.
RECURSIVE InsertByName(_, _)
InsertByName(s, v) ==
    IF s = <<>> THEN <<v>>
    ELSE IF NameRank[s[1]] <= NameRank[v]
         THEN <<s[1]>> \o InsertByName(Tail(s), v)
         ELSE <<v>> \o s

RECURSIVE sorted_by_name(_)
sorted_by_name(bx) ==
    IF bx = <<>> THEN <<>>
    ELSE InsertByName(sorted_by_name(SubSeq(bx, 1, Len(bx) - 1)), bx[Len(bx)])

dupe_check(xb, yb) == sorted_by_name(xb) = sorted_by_name(yb)

\* crossover without the test for a gene already placed.
crossover_pick_unchecked(which, t1, t2, baby) == IF which = 0 THEN t1 ELSE t2

\* The gene appended at one position of crossover's loop, for the coin `which`.
crossover_pick(which, t1, t2, baby) ==
    IF which = 0
    THEN IF t1 \in Range(baby) THEN t2 ELSE t1
    ELSE IF t2 \in Range(baby) THEN t1 ELSE t2

RECURSIVE crossover_loop(_, _, _, _)
crossover_loop(temp1, temp2, k, baby) ==
    IF k > Len(temp1) THEN {baby}
    ELSE UNION { crossover_loop(temp1, temp2, k + 1,
                     Append(baby, crossover_pick(which, temp1[k], temp2[k], baby)))
                 : which \in 0..1 }

\* The gene lists crossover can give a new baby, one for each run of the coin;
\* the caller has settled dupe_check(x, y), which returns x itself.
crossover(xb, yb) ==
    crossover_loop(sorted_by_name(xb), sorted_by_name(yb), 1, <<>>)

\* mutant_prob for the draw temp = random.randint(0, 10); probability in tenths.
mutant_prob(probability, temp) == temp <= probability

\* mutate without the first loop: the baby's own boxes stay in temp_list.
mutate_pool_all(bx, temp_list) == temp_list

\* temp_list of mutate: a copy of the catalog without the baby's boxes.
RECURSIVE mutate_pool(_, _)
mutate_pool(bx, temp_list) ==
    IF bx = <<>> THEN temp_list
    ELSE mutate_pool(Tail(bx),
             IF bx[1] \in Range(temp_list) THEN RemoveFirst(temp_list, bx[1])
             ELSE temp_list)

Replaced(runs) == {[r EXCEPT !.n = r.n + 1] : r \in runs}

\* The runs of mutate's second loop from position k on: the gene list and
\* temp_list at the end, the number n of genes replaced, and err when
\* random.choice was handed an empty temp_list (IndexError).  `left` is the number of replacements the
\* bound of the model still allows: with none left only the draws that leave
\* the gene alone are followed.
RECURSIVE mutate_loop(_, _, _, _, _)
mutate_loop(bx, temp_list, k, probability, left) ==
    IF k > Len(bx) THEN {[boxes |-> bx, n |-> 0, err |-> FALSE, temp_list |-> temp_list]}
    ELSE UNION {
           IF hit
           THEN IF left = 0 THEN {}
                ELSE IF temp_list = <<>>
                THEN {[boxes |-> bx, n |-> 0, err |-> TRUE, temp_list |-> temp_list]}
                ELSE UNION { Replaced(mutate_loop([bx EXCEPT ![k] = temp_list[m]],
                                          RemoveFirst(temp_list, temp_list[m]),
                                          k + 1, probability, left - 1))
                             : m \in DOMAIN temp_list }
           ELSE mutate_loop(bx, temp_list, k + 1, probability, left)
           : hit \in {mutant_prob(probability, temp) : temp \in 0..10} }

\* temp_list = boxes without the copy: mutate empties the caller's list.
caller_list_shared(catalog, temp_list) == temp_list

\* temp_list = boxes[:] is a copy: what mutate removes from temp_list leaves
\* the caller's list as it was.
caller_list(catalog, temp_list) == catalog

mutate(bx, probability, catalog, left) ==
    mutate_loop(bx, mutate_pool(bx, catalog), 1, probability, left)

\* The loop body without the three assignments: the fields stay as they were.
Recomputed_stale(ch, bx) == [ch EXCEPT !.boxes = bx]

\* The three assignments after mutate in genetic_algo's loop body.
Recomputed(ch, bx) ==
    [boxes |-> bx,
     fitness |-> calc_fitness(bx),
     total_weight |-> sum_weight(bx),
     total_value |-> sum_value(bx)]

\* return_fittest reading the other end of the sorted list.
return_fittest_last(h, pop) == get_fittest(h, pop)[Len(pop)]

return_fittest(h, pop) == get_fittest(h, pop)[1]

(***************************************************************************)
(* The heap.  The program observes an address only through == and          *)
(* through the object behind it, so a new object takes the lowest free     *)
(* address, and when a generation ends the objects no list refers to any   *)
(* more are dropped and the survivors take the addresses 1, 2, ... in the  *)
(* order of the population.                                                *)
(***************************************************************************)
NewAddress(h) == CHOOSE n \in 1..(Cardinality(DOMAIN h) + 1) : n \notin DOMAIN h

RECURSIVE Distinct(_)
Distinct(s) ==
    IF s = <<>> THEN <<>>
    ELSE LET r == Distinct(SubSeq(s, 1, Len(s) - 1))
         IN  IF s[Len(s)] \in Range(r) THEN r ELSE Append(r, s[Len(s)])

IndexOf(s, v) == CHOOSE k \in DOMAIN s : s[k] = v

(***************************************************************************)
(* The driver and genetic_algo                                             *)
(***************************************************************************)
Init ==
    /\ boxes = DriverBoxes
    /\ heap = <<>>
    /\ population = <<>>
    /\ size = POP_SIZE
    /\ nextgen = <<>>
    /\ nextgen_size = 0
    /\ i = 0 /\ j = 0
    /\ x = None /\ y = None
    /\ best = None
    /\ pc = "generate_population"
    /\ p_arg = MUTANT_PROB
    /\ mutations = 0

\* population.generate_population(boxes): `size` chromosomes, each the first
\* three boxes of a fresh shuffle of the driver's list.
generate_population ==
    /\ pc = "generate_population"
    /\ \E sh \in ShuffleRuns(size) :
         /\ heap' = [k \in 1..size |-> Chromosome(ShuffleList[sh[k]])]
         /\ population' = [k \in 1..size |-> k]
         /\ boxes' = IF size = 0 THEN boxes ELSE ShuffleList[sh[size]]
    /\ pc' = "genetic_algo"
    /\ UNCHANGED <<size, nextgen, nextgen_size, i, j, x, y, best, p_arg, mutations>>

\* The inner loop running over the current population instead.
BreedCount_population(n_size, pop) == Len(pop)

\* The number of children of one generation: range(0, nextgen.size).
BreedCount(n_size, pop) == n_size

\* Where the program goes at the head of the inner loop, with j = jn.
LoopHead(jn, n_size, pop) ==
    IF jn < BreedCount(n_size, pop) THEN "pick" ELSE "end_generation"

\* The entry of genetic_algo: nextgen = Population(population.size), best = None.
genetic_algo ==
    /\ pc = "genetic_algo"
    /\ nextgen' = <<>>
    /\ nextgen_size' = size
    /\ best' = None
    /\ i' = 0 /\ j' = 0
    /\ pc' = LoopHead(0, size, population)
    /\ UNCHANGED <<boxes, heap, population, size, x, y, p_arg, mutations>>

\* Lines 237-243 for the parents px and py: crossover, mutate, the three
\* recomputed fields and the append.  With duplicate parents the child is px
\* itself.  x and y are not read again before the next draws assign them, so
\* they are cleared when the child is in the buffer.
Breed(px, py) ==
    LET dupe == dupe_check(heap[px].boxes, heap[py].boxes)
        child == IF dupe THEN px ELSE NewAddress(heap)
        babies == IF dupe THEN {heap[px].boxes}
                  ELSE crossover(heap[px].boxes, heap[py].boxes)
    IN  \E baby \in babies :
          \E run \in mutate(baby, MUTANT_PROB, boxes, MaxMutations - mutations) :
            /\ mutations' = mutations + run.n
            /\ boxes' = caller_list(boxes, run.temp_list)
            /\ IF run.err
               THEN /\ heap' = IF dupe THEN [heap EXCEPT ![px].boxes = run.boxes]
                               ELSE heap
                    /\ pc' = "IndexError"
                    /\ x' = px /\ y' = py
                    /\ UNCHANGED <<nextgen, j>>
               ELSE /\ heap' = IF dupe
                               THEN [heap EXCEPT ![px] = Recomputed(heap[px], run.boxes)]
                               ELSE heap @@ (child :> Recomputed(Chromosome(<<>>), run.boxes))
                    /\ nextgen' = Append(nextgen, child)
                    /\ j' = j + 1
                    /\ x' = None /\ y' = None
                    /\ pc' = LoopHead(j + 1, nextgen_size, population)

\* One pass of the loop body whose first two draws differ: x and y are drawn
\* (random.choice of an empty list raises IndexError) and the child is bred.
\* When the two draws are the same object the program enters the while loop.
PickAndBreed ==
    /\ pc = "pick"
    /\ IF population = <<>>
       THEN /\ pc' = "IndexError"
            /\ UNCHANGED <<boxes, heap, nextgen, j, x, y, mutations>>
       ELSE \E m \in DOMAIN population, n \in DOMAIN population :
              IF population[m] = population[n]
              THEN /\ x' = population[m]
                   /\ y' = population[n]
                   /\ pc' = "redraw"
                   /\ UNCHANGED <<boxes, heap, nextgen, j, mutations>>
              ELSE Breed(population[m], population[n])
    /\ UNCHANGED <<population, size, nextgen_size, i, best, p_arg>>

\* while x == y: y = random.choice(population.population); a draw of another
\* object leaves the loop and the child is bred.
Redraw ==
    /\ pc = "redraw"
    /\ \E n \in DOMAIN population :
         IF x = population[n]
         THEN /\ y' = population[n]
              /\ UNCHANGED <<boxes, heap, nextgen, j, x, pc, mutations>>
         ELSE Breed(x, population[n])
    /\ UNCHANGED <<population, size, nextgen_size, i, best, p_arg>>

\* After the inner loop: return_fittest(nextgen) sorts the buffer; on the
\* target score the function returns, otherwise the buffer is copied into the
\* population, culled and cleared, and after the last generation the function
\* returns best.
EndGeneration ==
    /\ pc = "end_generation"
    /\ IF nextgen = <<>>
       THEN /\ pc' = "IndexError"
            /\ UNCHANGED <<heap, population, size, nextgen, i, j, best>>
       ELSE LET sorted == get_fittest(heap, nextgen)
                fittest == return_fittest(heap, nextgen)
            IN  IF heap[fittest].fitness = MAX_SCORE
                THEN /\ best' = return_fittest(heap, sorted)
                     /\ nextgen' = sorted
                     /\ pc' = "returned"
                     /\ UNCHANGED <<heap, population, size, i, j>>
                ELSE LET culled == cull(heap, sorted)
                         live == Distinct(culled.population)
                     IN  /\ heap' = [k \in 1..Len(live) |-> heap[live[k]]]
                         /\ population' = [k \in DOMAIN culled.population |->
                                             IndexOf(live, culled.population[k])]
                         /\ size' = culled.size
                         /\ nextgen' = <<>>
                         /\ j' = 0
                         /\ IF i + 1 < GENERATIONS
                            THEN i' = i + 1 /\ pc' = LoopHead(0, nextgen_size, population')
                            ELSE i' = i /\ pc' = "returned"
                         /\ UNCHANGED best
    /\ UNCHANGED <<boxes, nextgen_size, x, y, p_arg, mutations>>

\* The driver after the call: it reads best.total_value, best.fitness,
\* best.total_weight and best.boxes; None has none of them.
PrintWinner ==
    /\ pc = "returned"
    /\ pc' = IF best = None THEN "AttributeError" ELSE "exit"
    /\ UNCHANGED <<boxes, heap, population, size, nextgen, nextgen_size, i, j, x, y,
                   best, p_arg, mutations>>

Next ==
    \/ generate_population
    \/ genetic_algo
    \/ PickAndBreed
    \/ Redraw
    \/ EndGeneration
    \/ PrintWinner

Spec == Init /\ [][Next]_vars

(***************************************************************************)
(* mutate called on its own, with a probability of the caller's choice.    *)
(***************************************************************************)
Probabilities == {0, MUTANT_PROB, 10}

InitMutate ==
    /\ \E k \in 1..NumShuffles :
         /\ boxes = ShuffleList[k]
         /\ heap = <<Chromosome(ShuffleList[k])>>
    /\ p_arg \in Probabilities
    /\ population = <<>>
    /\ size = 0
    /\ nextgen = <<>>
    /\ nextgen_size = 0
    /\ i = 0 /\ j = 0
    /\ x = None /\ y = None
    /\ best = None
    /\ pc = "mutate"
    /\ mutations = 0

\* mutate(baby, probability, boxes) for the chromosome at address 1; mutate
\* recomputes no field.
MutateCall ==
    /\ pc = "mutate"
    /\ \E run \in mutate(heap[1].boxes, p_arg, boxes, Len(heap[1].boxes)) :
         /\ heap' = [heap EXCEPT ![1].boxes = run.boxes]
         /\ boxes' = caller_list(boxes, run.temp_list)
         /\ mutations' = run.n
         /\ pc' = IF run.err THEN "IndexError" ELSE "mutated"
    /\ UNCHANGED <<population, size, nextgen, nextgen_size, i, j, x, y, best, p_arg>>

SpecMutate == InitMutate /\ [][MutateCall]_vars

(***************************************************************************)
(* cull called on its own, on populations of 0 to MaxCull chromosomes.     *)
(***************************************************************************)
InitCull ==
    /\ \E n \in 0..MaxCull :
         \E sh \in [1..n -> DOMAIN ShuffleList] :
           /\ heap = [k \in 1..n |-> Chromosome(ShuffleList[sh[k]])]
           /\ population = [k \in 1..n |-> k]
           /\ size = n
    /\ boxes = DriverBoxes
    /\ nextgen = <<>>
    /\ nextgen_size = 0
    /\ i = 0 /\ j = 0
    /\ x = None /\ y = None
    /\ best = None
    /\ pc = "cull"
    /\ p_arg = MUTANT_PROB
    /\ mutations = 0

CullCall ==
    /\ pc = "cull"
    /\ population' = cull(heap, population).population
    /\ size' = cull(heap, population).size
    /\ pc' = "culled"
    /\ UNCHANGED <<boxes, heap, nextgen, nextgen_size, i, j, x, y, best, p_arg, mutations>>

SpecCull == InitCull /\ [][CullCall]_vars

(***************************************************************************)
(* The claims                                                              *)
(***************************************************************************)
Members == Range(population) \cup Range(nextgen)

InLoop == pc \in {"pick", "redraw", "end_generation"}

Occurrences(s, v) == Cardinality({k \in DOMAIN s : s[k] = v})

SameMembers(s, t) ==
    \A v \in Range(s) \cup Range(t) : Occurrences(s, v) = Occurrences(t, v)

NoDuplicates(bx) == \A m \in DOMAIN bx, n \in DOMAIN bx : m # n => bx[m] # bx[n]

Max(m, n) == IF m >= n THEN m ELSE n

\* The fitness the specification states for a gene list.
StatedFitness(bx) ==
    sum_value(bx) - Max(0, (sum_weight(bx) - 120) \div 2)
                  + (IF sum_weight(bx) = 120 THEN 2 ELSE 0)

TopFitness(h, pop) ==
    CHOOSE v \in {h[m].fitness : m \in Range(pop)} :
        \A m \in Range(pop) : h[m].fitness <= v

\* C1 (as stated): the loop that re-draws y while it is the same object as x
\* can always exit: whenever the program is in that loop the population holds
\* an object other than x.
C1_RedrawLoopExits ==
    pc = "redraw" => \E n \in DOMAIN population : population[n] # x

\* C2 (as stated): whenever genetic_algo has returned, on the target score or
\* after the last generation, the value returned is a chromosome, never None,
\* with exactly 3 genes of the catalog.
C2_ReturnsChromosome ==
    pc = "returned" =>
        /\ best # None
        /\ Len(heap[best].boxes) = 3
        /\ Range(heap[best].boxes) \subseteq Range(DriverBoxes)

C4_ProbabilityZeroKeepsGenes ==
    [][(pc = "mutate" /\ p_arg = 0) => heap'[1].boxes = heap[1].boxes]_vars

\* C5: between breeding steps every chromosome of the population or of the
\* buffer stores the fitness sum(values) - max(0, floor((W - 120)/2)) + (2 if
\* W = 120), and total_weight and total_value are the sums over its genes.
C5_DerivedFieldsFresh ==
    pc # "IndexError" =>
        \A m \in Members :
            /\ heap[m].fitness = StatedFitness(heap[m].boxes)
            /\ heap[m].total_weight = sum_weight(heap[m].boxes)
            /\ heap[m].total_value = sum_value(heap[m].boxes)

\* C5 witness: a chromosome of the first population that mutate wrote into (it
\* holds a box no shuffle of the model gives) sits in the buffer.
C5_Witness ==
    /\ pc = "pick" /\ i = 0
    /\ \E m \in Range(population) \cap Range(nextgen) :
         Range(heap[m].boxes) \cap {c, d, e} # {}

C7_ParentsUntouched ==
    [][(pc \in {"pick", "redraw"}) =>
          ( /\ \A m \in Range(population) : heap'[m].boxes = heap[m].boxes
            /\ Range(population') \cap Range(nextgen') = {} )]_vars

\* C8 (as stated): in every generation the finished buffer is as large as
\* the population it was bred from.
C8_BufferSizeOfPopulation ==
    pc = "end_generation" =>
        /\ Len(nextgen) = Len(population)
        /\ Len(nextgen) = size

\* C8 (amended): in every generation the finished buffer holds nextgen.size
\* children, the size of the initial population, while from the second
\* generation on the population bred from holds half of that, rounded down.
C8_BufferSizeOfFirstPopulation ==
    /\ pc = "end_generation" =>
         /\ Len(nextgen) = nextgen_size
         /\ nextgen_size = POP_SIZE
    /\ (InLoop /\ i >= 1) =>
         /\ Len(population) = POP_SIZE \div 2
         /\ size = POP_SIZE \div 2

\* C8 witness: the buffer of the second generation is finished.
C8_Witness ==
    pc = "end_generation" /\ i = 1 /\ Len(nextgen) > Len(population)

\* C9: the early return happens exactly at the end of a generation whose
\* full buffer has a fittest member of fitness 22; the chromosome returned is
\* a member of that buffer of fitness 22, no member is fitter, and the
\* buffer is neither culled nor copied into the population.  No other step
\* sets best.
C9_EarlyReturn ==
    [][IF pc = "end_generation" /\ nextgen # <<>>
       THEN (
            /\ Len(nextgen) = nextgen_size
            /\ (pc' = "returned" /\ best' # None) <=> (TopFitness(heap, nextgen) = 22)
            /\ TopFitness(heap, nextgen) = 22 =>
                 /\ best' \in Range(nextgen)
                 /\ heap[best'].fitness = 22
                 /\ \A m \in Range(nextgen) : heap[m].fitness <= 22
                 /\ SameMembers(nextgen', nextgen)
                 /\ population' = population /\ size' = size
                 /\ heap' = heap /\ i' = i )
       ELSE best' = best]_vars

\* C9 witness: the function returned early from the second generation.
C9_Witness ==
    pc = "returned" /\ best # None /\ i = 1 /\ heap[best].fitness = 22

\* C10: no random.choice is handed an empty list: the population is not
\* empty when parents are drawn, the buffer is not empty when return_fittest
\* reads its first member, no run of mutate that the model follows finds
\* temp_list empty, and for every pair of parents that can be drawn and every
\* baby they can get, temp_list starts with at least as many boxes as the baby
\* has genes, so that the run replacing every gene still finds a box at its
\* last replacement.
C10_NoChoiceFromEmpty ==
    /\ pc # "IndexError"
    /\ pc = "end_generation" => nextgen # <<>>
    /\ pc \in {"pick", "redraw"} =>
         /\ population # <<>>
         /\ \A px \in (IF pc = "redraw" THEN {x} ELSE Range(population)) :
              \A py \in Range(population) \ {px} :
                \A baby \in (IF dupe_check(heap[px].boxes, heap[py].boxes)
                             THEN {heap[px].boxes}
                             ELSE crossover(heap[px].boxes, heap[py].boxes)) :
                  Len(mutate_pool(baby, boxes)) >= Len(baby)

\* C10 witness: parents are about to be drawn in the fifth generation, after
\* a mutation.
C10_Witness ==
    pc = "pick" /\ i = 4 /\ mutations >= 1 /\ population # <<>>

====
